---------------------------- MODULE Spec2Model ----------------------------
(***************************************************************************)
(* Session lifecycle of the NetSuite data portal.                          *)
(*                                                                         *)
(* Server side (src/src/middleware.ts): the in-memory sessionStore, the    *)
(* validity test, the sweep of expired sessions and the request handler,   *)
(* followed by the two session routes the handler lets through             *)
(* (src/src/app/api/session-check/route.ts and                             *)
(* src/src/app/api/extend-session/route.ts).                               *)
(*                                                                         *)
(* Time is Date.now() in milliseconds.  A run of the handler is            *)
(* synchronous and is taken at one instant: every Date.now() it reads is   *)
(* the value of the clock variable now.                                    *)
(*                                                                         *)
(* Client side (src/src/components/SessionManager.tsx): the Monitor, with  *)
(* its React state, the closure variable lastActivity, its timers and the  *)
(* requests it is waiting on.  A handler, the render it causes and the     *)
(* effects that run after the render are taken as one step.                *)
(*                                                                         *)
(* Strings that the code takes apart (the decoded credentials, the         *)
(* configured username and password) are sequences of character codes;     *)
(* paths, cookie names and the random part of a session id are atoms.      *)
(***************************************************************************)
EXTENDS Integers, Sequences, FiniteSets, TLC

VARIABLES
    now,           \* Date.now(), in ms
    sessionStore,  \* the Map sessionStore: session id -> session data
    env,           \* process.env.AUTH_USERNAME / AUTH_PASSWORD
    resp,          \* the last request handled and the answer it got
    showWarning,      \* useState(false)
    timeRemaining,    \* useState<number | null>(null), in seconds
    isSessionExpired, \* useState(false)
    lastActivity,     \* let lastActivity of the activity effect, in ms
    checkTimer,       \* when setInterval(checkSession, ...) fires next
    countdownTimer,   \* when the countdown interval fires next
    reloadTimers,     \* when each pending setTimeout(reload) fires
    reloaded,         \* window.location.reload() has been called
    storageCleared,   \* localStorage and sessionStorage have been cleared
    inflight,         \* the fetches the Monitor is awaiting
    event             \* the last thing the Monitor did

serverVars == <<sessionStore, env, resp>>

monitorVars ==
    <<showWarning, timeRemaining, isSessionExpired, lastActivity, checkTimer,
      countdownTimer, reloadTimers, reloaded, storageCleared, inflight,
      event>>

vars ==
    <<now, sessionStore, env, resp, showWarning, timeRemaining,
      isSessionExpired, lastActivity, checkTimer, countdownTimer,
      reloadTimers, reloaded, storageCleared, inflight, event>>

----------------------------------------------------------------------------
(* SESSION_CONFIG *)

INACTIVITY_TIMEOUT == 30 * 60 * 1000

MAX_SESSION_DURATION == 8 * 60 * 60 * 1000

\* SessionManager.tsx
WARNING_TIME == 5 * 60 * 1000

CHECK_INTERVAL == 60 * 1000

\* the period of the countdown interval
COUNTDOWN_INTERVAL == 1000

\* the delay of the reload after the expiry
RELOAD_DELAY == 2000

----------------------------------------------------------------------------
(* Bounds of the model *)

\* the clock advances in steps of TickMs milliseconds (600 s)
TickMs == 600000

\* the short horizon, in ticks: past one inactivity timeout
MaxTicks == 4

\* the long horizon, in ticks: past MAX_SESSION_DURATION
LongTicks == 50

\* the longest the server is left without any request, in ticks
MaxIdleTicks == 4

\* sessions held at once
MaxSessions == 2

\* under the long horizon credentials are presented during the first
\* LoginTicks ticks only
LoginTicks == 0

\* milliseconds looked at on either side of a timeout boundary
Slack == 1

\* the Monitor is followed for HorizonMinutes minutes after its mount
HorizonMinutes == 31

\* a fetch of the Monitor is answered at the instant it is sent or at one
\* of the next MaxWait instants at which a timer of the Monitor fires
MaxWait == 1

\* the user leaves the page alone for the first QuietMinutes minutes
QuietMinutes == 29

\* fetches of the Monitor awaiting their reply at once
MaxInflight == 1

\* longest configured or presented string, in characters
MaxLen == 2

\* outputs of Math.random().toString(36).substring(2)
RandomStrings == {"r1", "r2"}

\* the one output drawn under the two horizons
OneRandom == {"r1"}

----------------------------------------------------------------------------
(* Character codes and strings *)

COLON == 58

\* 'admin'
DefaultUsername == <<97, 100, 109, 105, 110>>

\* 'secure123'
DefaultPassword == <<115, 101, 99, 117, 114, 101, 49, 50, 51>>

\* the value of a destructured array element that is not there
Undefined == <<-1>>

\* process.env.X || fallback: an unset or empty variable is falsy
OrDefault(value, fallback) == IF value = <<>> THEN fallback ELSE value

validUsername == OrDefault(env.AUTH_USERNAME, DefaultUsername)

validPassword == OrDefault(env.AUTH_PASSWORD, DefaultPassword)

\* String.prototype.split with a one-character separator
RECURSIVE SplitFrom(_, _, _, _)
SplitFrom(s, sep, i, cur) ==
    IF i > Len(s) THEN <<cur>>
    ELSE IF s[i] = sep THEN <<cur>> \o SplitFrom(s, sep, i + 1, <<>>)
    ELSE SplitFrom(s, sep, i + 1, Append(cur, s[i]))

Split(s, sep) == SplitFrom(s, sep, 1, <<>>)

\* Buffer.toString('ascii'): the high bit of every byte is dropped
ToAscii(bytes) == [i \in 1..Len(bytes) |-> bytes[i] % 128]

\* const [username, password] = credentials.split(':')
Destructure(parts, i) == IF i <= Len(parts) THEN parts[i] ELSE Undefined

----------------------------------------------------------------------------
(* Requests *)

\* request.cookies.get(SESSION_COOKIE_NAME) of a request without the cookie
NoCookie == <<>>

\* a cookie value the server never issued
ForgedCookie == <<"forged", 0>>

\* request.headers.get('authorization'): the scheme before the first
\* space ("none": no header) and the bytes its base64 payload decodes to
NoHeader == [scheme |-> "none", payload |-> <<>>]

Basic(bytes) == [scheme |-> "Basic", payload |-> bytes]

\* byte sequences of 'user:pass'
Credentials(user, pass) == user \o <<COLON>> \o pass

GoodBasic == Basic(Credentials(DefaultUsername, DefaultPassword))

\* 'admin:Secure123'
WrongBasic == Basic(Credentials(DefaultUsername, <<83, 101, 99, 117, 114, 101, 49, 50, 51>>))

\* 'Bearer <base64 of admin:secure123>'
Bearer == [scheme |-> "Bearer", payload |-> Credentials(DefaultUsername, DefaultPassword)]

Headers == {NoHeader, Bearer, GoodBasic, WrongBasic}

\* paths of the model that start with '/api/auth'
ApiAuthPaths == {"/api/auth/login"}

SessionRoutes == {"/api/session-check", "/api/extend-session"}

\* the answer of the route a request is passed on to
\* (GET /api/session-check, POST /api/extend-session; a page renders)
RouteStatus(path) == 200

----------------------------------------------------------------------------
(* middleware.ts *)

\* mutant: a session id without the time part
generateSessionIdNoTime(r, t) == <<r, 0>>

\* generateSessionId(): Math.random() part followed by Date.now() part
generateSessionId(r, t) == <<r, t>>

\* the time part of a session id
IssuedAt(sessionId) == sessionId[2]

\* mutant: the inactivity bound made exclusive
isSessionValidIdleExclusive(sessionData, t) ==
    LET timeSinceLogin == t - sessionData.loginTime
        timeSinceActivity == t - sessionData.lastActivity
    IN  IF timeSinceLogin > MAX_SESSION_DURATION THEN FALSE
        ELSE IF timeSinceActivity >= INACTIVITY_TIMEOUT THEN FALSE
        ELSE TRUE

\* mutant: the maximum duration made exclusive
isSessionValidMaxExclusive(sessionData, t) ==
    LET timeSinceLogin == t - sessionData.loginTime
        timeSinceActivity == t - sessionData.lastActivity
    IN  IF timeSinceLogin >= MAX_SESSION_DURATION THEN FALSE
        ELSE IF timeSinceActivity > INACTIVITY_TIMEOUT THEN FALSE
        ELSE TRUE

\* mutant: no session ever expires
isSessionValidAlways(sessionData, t) == TRUE

isSessionValid(sessionData, t) ==
    LET timeSinceLogin == t - sessionData.loginTime
        timeSinceActivity == t - sessionData.lastActivity
    IN  IF timeSinceLogin > MAX_SESSION_DURATION THEN FALSE
        ELSE IF timeSinceActivity > INACTIVITY_TIMEOUT THEN FALSE
        ELSE TRUE

\* mutant: the sweep removes nothing
cleanupNothing(store, t) == store

\* mutant: a run of the sweep stops after the first record it removes
cleanupFirstExpired(store, t) ==
    LET expired == {k \in DOMAIN store : ~isSessionValid(store[k], t)}
    IN  IF expired = {} THEN store
        ELSE [id \in DOMAIN store \ {CHOOSE k \in expired : TRUE}
                |-> store[id]]

\* the store after cleanupExpiredSessions() at time t
cleanupExpiredSessions(store, t) ==
    [id \in {k \in DOMAIN store : isSessionValid(store[k], t)} |-> store[id]]

\* the paths the middleware lets through without looking at the session
SkipsAuth(path) ==
    \/ path \in ApiAuthPaths
    \/ path = "/api/session-check"
    \/ path = "/api/extend-session"

\* sessionData && isSessionValid(sessionData)
SessionAccepted(store, cookie, t) ==
    /\ cookie # NoCookie
    /\ cookie \in DOMAIN store
    /\ isSessionValid(store[cookie], t)

\* mutant: a touch also restarts the session
TouchRestarts(store, cookie, t) ==
    [store EXCEPT ![cookie] = [@ EXCEPT !.lastActivity = t, !.loginTime = t]]

\* mutant: a touch stores the idle time, not the time
TouchStoresIdle(store, cookie, t) ==
    [store EXCEPT ![cookie] = [@ EXCEPT !.lastActivity = t - @]]

\* sessionData.lastActivity = Date.now(); sessionStore.set(...)
Touch(store, cookie, t) ==
    [store EXCEPT ![cookie] = [@ EXCEPT !.lastActivity = t]]

\* Map.delete: the store without id
Delete(store, id) == [k \in DOMAIN store \ {id} |-> store[k]]

\* Map.set: the store with id bound to data
Put(store, id, data) ==
    [k \in DOMAIN store \cup {id} |-> IF k = id THEN data ELSE store[k]]

\* mutant: any cookie that finds no valid session empties the store
DropEverything(store, cookie) ==
    IF cookie # NoCookie THEN [k \in {} |-> store[k]] ELSE store

\* the else branch of the cookie check: a record found but not valid is removed
DropInvalid(store, cookie) ==
    IF cookie # NoCookie /\ cookie \in DOMAIN store
    THEN Delete(store, cookie) ELSE store

\* mutant: only the absence of the header is checked
LacksHeader(header) == header.scheme = "none"

\* !authHeader || !authHeader.startsWith('Basic ')
LacksBasic(header) == header.scheme # "Basic"

\* Buffer.from(base64Credentials, 'base64').toString('ascii').split(':')
DecodedParts(header) == Split(ToAscii(header.payload), COLON)

HeaderUsername(header) == Destructure(DecodedParts(header), 1)

HeaderPassword(header) == Destructure(DecodedParts(header), 2)

\* the negation of: username !== validUsername || password !== validPassword
CredentialsMatch(header, user, pass) ==
    ~(HeaderUsername(header) # user \/ HeaderPassword(header) # pass)

\* mutant: loginTime left at the epoch
NewSessionDataNoLoginTime(username, t, sessionId) ==
    [username |-> username, loginTime |-> 0, lastActivity |-> t,
     sessionId |-> sessionId]

\* the sessionData object built after a successful authentication
NewSessionData(username, t, sessionId) ==
    [username |-> username, loginTime |-> t, lastActivity |-> t,
     sessionId |-> sessionId]

----------------------------------------------------------------------------
(* The middleware run on one request, by the branch it returns from.       *)
(* resp keeps the request (path, cookie, header), the time it was handled  *)
(* (at), what the store held under the cookie on arrival (found), and the  *)
(* answer: the branch taken (via), the status, the cookie set, whether the *)
(* cookie is deleted and whether a WWW-Authenticate challenge is sent.     *)

\* what the store holds under the cookie when the request arrives: nothing,
\* a valid record, or a record past the inactivity timeout ("inactive"),
\* past the maximum duration ("overdue") or past both ("both")
Found(store, cookie, t) ==
    IF cookie = NoCookie \/ cookie \notin DOMAIN store THEN "none"
    ELSE LET late == t - store[cookie].loginTime > MAX_SESSION_DURATION
             idle == t - store[cookie].lastActivity > INACTIVITY_TIMEOUT
         IN  IF late /\ idle THEN "both"
             ELSE IF late THEN "overdue"
             ELSE IF idle THEN "inactive"
             ELSE "valid"

Answer(path, cookie, header, via, status, setCookie, clearCookie, challenge) ==
    [path |-> path, cookie |-> cookie, header |-> header, at |-> now,
     found |-> Found(sessionStore, cookie, now),
     via |-> via, status |-> status, setCookie |-> setCookie,
     clearCookie |-> clearCookie, challenge |-> challenge]

\* lines 66-78: sweep, then let the session routes through unchecked
SkipAuthRequest(path, cookie, header) ==
    LET swept == cleanupExpiredSessions(sessionStore, now)
    IN  /\ SkipsAuth(path)
        /\ sessionStore' = swept
        /\ resp' = Answer(path, cookie, header, "skip", RouteStatus(path),
                          NoCookie, FALSE, FALSE)
        /\ UNCHANGED <<now, env>>

\* lines 80-101: a valid session is touched and its cookie refreshed
SessionRequest(path, cookie, header) ==
    LET swept == cleanupExpiredSessions(sessionStore, now)
    IN  /\ ~SkipsAuth(path)
        /\ SessionAccepted(swept, cookie, now)
        /\ sessionStore' = Touch(swept, cookie, now)
        /\ resp' = Answer(path, cookie, header, "session", RouteStatus(path),
                          cookie, FALSE, FALSE)
        /\ UNCHANGED <<now, env>>

\* lines 102-134: no valid session and no Basic header: 401 with a challenge
ChallengeRequest(path, cookie, header) ==
    LET swept == cleanupExpiredSessions(sessionStore, now)
    IN  /\ ~SkipsAuth(path)
        /\ ~SessionAccepted(swept, cookie, now)
        /\ LacksBasic(header)
        /\ sessionStore' = DropInvalid(swept, cookie)
        /\ resp' = Answer(path, cookie, header, "challenge", 401,
                          NoCookie, cookie # NoCookie, TRUE)
        /\ UNCHANGED <<now, env>>

\* lines 136-153: credentials that do not match: 401
DeniedRequest(path, cookie, header) ==
    LET swept == cleanupExpiredSessions(sessionStore, now)
    IN  /\ ~SkipsAuth(path)
        /\ ~SessionAccepted(swept, cookie, now)
        /\ ~LacksBasic(header)
        /\ ~CredentialsMatch(header, validUsername, validPassword)
        /\ sessionStore' = DropInvalid(swept, cookie)
        /\ resp' = Answer(path, cookie, header, "denied", 401,
                          NoCookie, FALSE, TRUE)
        /\ UNCHANGED <<now, env>>

\* lines 155-178: matching credentials: a new session and its cookie
LoginRequest(path, cookie, header, r) ==
    LET swept == cleanupExpiredSessions(sessionStore, now)
        sessionId == generateSessionId(r, now)
        sessionData == NewSessionData(HeaderUsername(header), now, sessionId)
        store == Put(DropInvalid(swept, cookie), sessionId, sessionData)
    IN  /\ ~SkipsAuth(path)
        /\ ~SessionAccepted(swept, cookie, now)
        /\ ~LacksBasic(header)
        /\ CredentialsMatch(header, validUsername, validPassword)
        /\ Cardinality(DOMAIN store) <= MaxSessions
        /\ sessionStore' = store
        /\ resp' = Answer(path, cookie, header, "login", RouteStatus(path),
                          sessionId, FALSE, FALSE)
        /\ UNCHANGED <<now, env>>

\* time passes
Tick(horizonTicks) ==
    /\ now + TickMs <= horizonTicks * TickMs
    /\ now + TickMs - resp.at <= MaxIdleTicks * TickMs
    /\ now' = now + TickMs
    /\ UNCHANGED <<sessionStore, env, resp>>
    /\ UNCHANGED monitorVars

----------------------------------------------------------------------------
(* The Monitor (SessionManager.tsx).  Date.now() in the browser is the     *)
(* clock now.  Timers fire when they are due.  An async function is two    *)
(* steps: up to its await, where the fetch is put in flight with what the  *)
(* function has computed so far, and from the reply on.                    *)

\* timeRemaining === null
Null == -1

\* no interval scheduled
NoTimer == -1

\* what a fetch gives back: a response with a status, or a thrown error
Thrown == [thrown |-> TRUE, status |-> 0]

Response(status) == [thrown |-> FALSE, status |-> status]

NoReply == [thrown |-> FALSE, status |-> -1]

Replies == {Thrown} \cup {Response(status) : status \in {200, 401, 500}}

\* response.ok
ResponseOk(reply) == reply.status >= 200 /\ reply.status <= 299

\* mutant: only a 401 counts as an invalid session
checkSessionStatusOnly401(reply) ==
    IF reply.thrown THEN FALSE
    ELSE IF reply.status = 401 THEN FALSE
    ELSE TRUE

\* the value checkSessionStatus() resolves to, given what its fetch gave
checkSessionStatus(reply) ==
    IF reply.thrown THEN FALSE
    ELSE IF reply.status = 401 THEN FALSE
    ELSE ResponseOk(reply)

\* Math.ceil(a / b) for a > 0
Ceil(a, b) == (a + b - 1) \div b

\* a fetch in flight: the function awaiting it, the timeUntilExpiry that
\* checkSession computed before sending it, and for how many timer
\* instants it has been waiting
Request(kind, timeUntilExpiry) ==
    [kind |-> kind, timeUntilExpiry |-> timeUntilExpiry, waited |-> 0]

\* what a reply is to the caller of fetch: a response with a success
\* status ("ok"), or a thrown error or any other status ("failed")
Outcome(reply) ==
    IF reply = NoReply THEN "none"
    ELSE IF ~reply.thrown /\ reply.status \in 200..299 THEN "ok"
    ELSE "failed"

\* the record kept of what the Monitor did last: the handler that ran, the
\* outcome of the fetch it was resumed with, the timeUntilExpiry that
\* checkSession had computed, and whether an extendSession has succeeded
\* since the mount
FirstEvent(kind, timeUntilExpiry) ==
    [kind |-> kind, outcome |-> "none",
     timeUntilExpiry |-> timeUntilExpiry, extended |-> FALSE]

Occurred(kind, reply, timeUntilExpiry) ==
    [kind |-> kind, outcome |-> Outcome(reply),
     timeUntilExpiry |-> timeUntilExpiry,
     extended |-> \/ event.extended
                  \/ kind = "extendReply" /\ Outcome(reply) = "ok"]

\* the component is mounted from the run of the activity effect to the run
\* of its cleanup, and that is when the check interval exists
Mounted == checkTimer # NoTimer

\* the render after the state setters, and the countdown effect after the
\* render: when showWarning or timeRemaining has changed, the interval is
\* cleared and, under the warning, a new one is set; the setters of a
\* component that is no longer mounted do nothing
Render(warning, remaining, expired) ==
    IF Mounted
    THEN /\ showWarning' = warning
         /\ timeRemaining' = remaining
         /\ isSessionExpired' = expired
         /\ countdownTimer' =
               IF warning = showWarning /\ remaining = timeRemaining
               THEN countdownTimer
               ELSE IF warning /\ remaining # Null
                    THEN now + COUNTDOWN_INTERVAL
                    ELSE NoTimer
    ELSE UNCHANGED <<showWarning, timeRemaining, isSessionExpired,
                     countdownTimer>>

\* handleSessionExpiry(), with the value timeRemaining is left with
handleSessionExpiry(remaining) ==
    /\ Render(FALSE, remaining, TRUE)
    /\ storageCleared' = TRUE
    /\ reloadTimers' = Append(reloadTimers, now + RELOAD_DELAY)

\* updateActivity: one of the activity signals
updateActivity ==
    /\ ~reloaded
    /\ Mounted
    /\ lastActivity' = now
    /\ Render(FALSE, Null, isSessionExpired)
    /\ event' = Occurred("activity", NoReply, 0)
    /\ UNCHANGED <<now, checkTimer, reloadTimers, reloaded, storageCleared,
                   inflight>>
    /\ UNCHANGED serverVars

\* checkSession up to its await: the periodic interval fires
checkSession ==
    LET timeSinceActivity == now - lastActivity
        timeUntilExpiry == INACTIVITY_TIMEOUT - timeSinceActivity
    IN  /\ ~reloaded
        /\ checkTimer = now
        /\ checkTimer' = now + CHECK_INTERVAL
        /\ inflight' = inflight \cup {Request("check", timeUntilExpiry)}
        /\ event' = Occurred("check", NoReply, timeUntilExpiry)
        /\ UNCHANGED <<now, showWarning, timeRemaining, isSessionExpired,
                       lastActivity, countdownTimer, reloadTimers, reloaded,
                       storageCleared>>
        /\ UNCHANGED serverVars

\* mutant: the warning is shown only strictly inside the warning window
AfterCheckStrict(request, reply) ==
    IF ~checkSessionStatus(reply)
    THEN handleSessionExpiry(timeRemaining)
    ELSE IF request.timeUntilExpiry < WARNING_TIME
            /\ request.timeUntilExpiry > 0
    THEN /\ Render(TRUE, Ceil(request.timeUntilExpiry, 1000),
                   isSessionExpired)
         /\ UNCHANGED <<storageCleared, reloadTimers>>
    ELSE IF request.timeUntilExpiry <= 0
    THEN handleSessionExpiry(timeRemaining)
    ELSE /\ Render(showWarning, timeRemaining, isSessionExpired)
         /\ UNCHANGED <<storageCleared, reloadTimers>>

\* mutant: an invalid answer is left to the countdown while the warning
\* is shown
AfterCheckWaits(request, reply) ==
    IF ~checkSessionStatus(reply) /\ ~showWarning
    THEN handleSessionExpiry(timeRemaining)
    ELSE IF request.timeUntilExpiry <= WARNING_TIME
            /\ request.timeUntilExpiry > 0
    THEN /\ Render(TRUE, Ceil(request.timeUntilExpiry, 1000),
                   isSessionExpired)
         /\ UNCHANGED <<storageCleared, reloadTimers>>
    ELSE IF request.timeUntilExpiry <= 0
    THEN handleSessionExpiry(timeRemaining)
    ELSE /\ Render(showWarning, timeRemaining, isSessionExpired)
         /\ UNCHANGED <<storageCleared, reloadTimers>>

\* mutant: a valid answer outside the warning window hides the warning
AfterCheckHides(request, reply) ==
    IF ~checkSessionStatus(reply)
    THEN handleSessionExpiry(timeRemaining)
    ELSE IF request.timeUntilExpiry <= WARNING_TIME
            /\ request.timeUntilExpiry > 0
    THEN /\ Render(TRUE, Ceil(request.timeUntilExpiry, 1000),
                   isSessionExpired)
         /\ UNCHANGED <<storageCleared, reloadTimers>>
    ELSE IF request.timeUntilExpiry <= 0
    THEN handleSessionExpiry(timeRemaining)
    ELSE /\ Render(FALSE, Null, isSessionExpired)
         /\ UNCHANGED <<storageCleared, reloadTimers>>

\* checkSession after its await, lines 102-113
AfterCheck(request, reply) ==
    IF ~checkSessionStatus(reply)
    THEN handleSessionExpiry(timeRemaining)
    ELSE IF request.timeUntilExpiry <= WARNING_TIME
            /\ request.timeUntilExpiry > 0
    THEN /\ Render(TRUE, Ceil(request.timeUntilExpiry, 1000),
                   isSessionExpired)
         /\ UNCHANGED <<storageCleared, reloadTimers>>
    ELSE IF request.timeUntilExpiry <= 0
    THEN handleSessionExpiry(timeRemaining)
    ELSE /\ Render(showWarning, timeRemaining, isSessionExpired)
         /\ UNCHANGED <<storageCleared, reloadTimers>>

\* checkSession from its await on: the reply to a liveness fetch arrives
checkSessionResumes(request, reply) ==
    /\ ~reloaded
    /\ request \in inflight
    /\ request.kind = "check"
    /\ inflight' = inflight \ {request}
    /\ AfterCheck(request, reply)
    /\ event' = Occurred("checkReply", reply, request.timeUntilExpiry)
    /\ UNCHANGED <<lastActivity, checkTimer, reloaded>>

\* the reply as the browser sees it, whatever the server did
checkSessionReply(request, reply) ==
    /\ checkSessionResumes(request, reply)
    /\ UNCHANGED now
    /\ UNCHANGED serverVars

\* extendSession up to its await: a click on "Stay Logged In", which is
\* rendered under the warning
extendSession ==
    /\ ~reloaded
    /\ showWarning
    /\ timeRemaining # Null
    /\ Cardinality(inflight) < MaxInflight
    /\ inflight' = inflight \cup {Request("extend", 0)}
    /\ event' = Occurred("extend", NoReply, 0)
    /\ UNCHANGED <<now, showWarning, timeRemaining, isSessionExpired,
                   lastActivity, checkTimer, countdownTimer, reloadTimers,
                   reloaded, storageCleared>>
    /\ UNCHANGED serverVars

\* mutant: a successful extension takes the Monitor out of the expired state
AfterExtendRevives(reply) ==
    IF reply.thrown THEN handleSessionExpiry(timeRemaining)
    ELSE IF ResponseOk(reply)
    THEN /\ Render(FALSE, Null, FALSE)
         /\ UNCHANGED <<storageCleared, reloadTimers>>
    ELSE handleSessionExpiry(timeRemaining)

\* extendSession after its await, lines 70-80
AfterExtend(reply) ==
    IF reply.thrown THEN handleSessionExpiry(timeRemaining)
    ELSE IF ResponseOk(reply)
    THEN /\ Render(FALSE, Null, isSessionExpired)
         /\ UNCHANGED <<storageCleared, reloadTimers>>
    ELSE handleSessionExpiry(timeRemaining)

\* extendSession from its await on
extendSessionResumes(request, reply) ==
    /\ ~reloaded
    /\ request \in inflight
    /\ request.kind = "extend"
    /\ inflight' = inflight \ {request}
    /\ AfterExtend(reply)
    /\ event' = Occurred("extendReply", reply, 0)
    /\ UNCHANGED <<lastActivity, checkTimer, reloaded>>

extendSessionReply(request, reply) ==
    /\ extendSessionResumes(request, reply)
    /\ UNCHANGED now
    /\ UNCHANGED serverVars

\* a click on "Logout Now": onClick={handleSessionExpiry}
LogoutNow ==
    /\ ~reloaded
    /\ showWarning
    /\ timeRemaining # Null
    /\ handleSessionExpiry(timeRemaining)
    /\ event' = Occurred("logout", NoReply, 0)
    /\ UNCHANGED <<now, lastActivity, checkTimer, reloaded, inflight>>
    /\ UNCHANGED serverVars

\* the countdown interval fires, lines 145-153
countdownTick ==
    /\ ~reloaded
    /\ countdownTimer = now
    /\ IF timeRemaining = Null \/ timeRemaining <= 1
       THEN handleSessionExpiry(Null)
       ELSE /\ Render(showWarning, timeRemaining - 1, isSessionExpired)
            /\ UNCHANGED <<storageCleared, reloadTimers>>
    /\ event' = Occurred("countdown", NoReply, 0)
    /\ UNCHANGED <<now, lastActivity, checkTimer, reloaded, inflight>>
    /\ UNCHANGED serverVars

\* a setTimeout of handleSessionExpiry fires: window.location.reload()
Reload ==
    /\ ~reloaded
    /\ \E i \in 1..Len(reloadTimers) : reloadTimers[i] = now
    /\ reloaded' = TRUE
    /\ event' = Occurred("reload", NoReply, 0)
    /\ UNCHANGED <<now, showWarning, timeRemaining, isSessionExpired,
                   lastActivity, checkTimer, countdownTimer, reloadTimers,
                   storageCleared, inflight>>
    /\ UNCHANGED serverVars

\* the component is unmounted: the cleanup of the activity effect removes
\* the listeners and clears the check interval, the cleanup of the
\* countdown effect clears its interval, and the state of the component
\* is gone with it
Unmount ==
    /\ ~reloaded
    /\ Mounted
    /\ checkTimer' = NoTimer
    /\ countdownTimer' = NoTimer
    /\ showWarning' = FALSE
    /\ timeRemaining' = Null
    /\ isSessionExpired' = FALSE
    /\ event' = Occurred("unmount", NoReply, 0)
    /\ UNCHANGED <<now, lastActivity, reloadTimers, reloaded, storageCleared,
                   inflight>>
    /\ UNCHANGED serverVars

\* the times at which a timer of the Monitor is due
TimersDue ==
    ({checkTimer, countdownTimer}
        \cup {reloadTimers[i] : i \in 1..Len(reloadTimers)}) \ {NoTimer}

Earliest(times) == CHOOSE t \in times : \A u \in times : t <= u

\* time passes in the browser, up to the next timer; the page is followed
\* up to the horizon, and past it only while a reload is pending
Advance ==
    /\ ~reloaded
    /\ TimersDue # {}
    /\ \A due \in TimersDue : due > now
    /\ \A request \in inflight : request.waited < MaxWait
    /\ \/ Earliest(TimersDue) <= HorizonMinutes * 60 * 1000
       \/ reloadTimers # <<>>
    /\ now' = Earliest(TimersDue)
    /\ inflight' = {[request EXCEPT !.waited = @ + 1] : request \in inflight}
    /\ UNCHANGED <<showWarning, timeRemaining, isSessionExpired,
                   lastActivity, checkTimer, countdownTimer, reloadTimers,
                   reloaded, storageCleared, event>>
    /\ UNCHANGED serverVars

----------------------------------------------------------------------------
(* Specifications *)

\* no page of the portal is open
MonitorAbsent ==
    /\ showWarning = FALSE
    /\ timeRemaining = Null
    /\ isSessionExpired = FALSE
    /\ lastActivity = 0
    /\ checkTimer = NoTimer
    /\ countdownTimer = NoTimer
    /\ reloadTimers = <<>>
    /\ reloaded = FALSE
    /\ storageCleared = FALSE
    /\ inflight = {}
    /\ event = FirstEvent("none", 0)

NoRequest ==
    [path |-> "", cookie |-> NoCookie, header |-> NoHeader, at |-> 0,
     found |-> "none", via |-> "init", status |-> 0, setCookie |-> NoCookie,
     clearCookie |-> FALSE, challenge |-> FALSE]

EmptyStore == [id \in {} |-> NewSessionData(<<>>, 0, NoCookie)]

\* no AUTH_USERNAME / AUTH_PASSWORD in the environment
NoEnv == [AUTH_USERNAME |-> <<>>, AUTH_PASSWORD |-> <<>>]

\* cookie values a client may send
Cookies == {NoCookie, ForgedCookie} \cup DOMAIN sessionStore

Init ==
    /\ now = 0
    /\ sessionStore = EmptyStore
    /\ env = NoEnv
    /\ resp = NoRequest
    /\ MonitorAbsent

\* a request to one of the session routes
SkipAuth ==
    /\ \E path \in SessionRoutes, cookie \in Cookies :
           SkipAuthRequest(path, cookie, NoHeader)
    /\ UNCHANGED monitorVars

\* a request to a page with the cookie of a session
Session ==
    /\ \E cookie \in Cookies, header \in {NoHeader, GoodBasic} :
           SessionRequest("/", cookie, header)
    /\ UNCHANGED monitorVars

Challenge ==
    /\ \E cookie \in Cookies, header \in Headers :
           ChallengeRequest("/", cookie, header)
    /\ UNCHANGED monitorVars

Denied ==
    /\ \E cookie \in Cookies, header \in Headers :
           DeniedRequest("/", cookie, header)
    /\ UNCHANGED monitorVars

Login ==
    /\ \E cookie \in Cookies, header \in Headers, r \in OneRandom :
           LoginRequest("/", cookie, header, r)
    /\ UNCHANGED monitorVars

\* under the long horizon the sessions are created at its start
LoginAtStart ==
    /\ now <= LoginTicks * TickMs
    /\ Login

Next ==
    \/ Tick(MaxTicks)
    \/ SkipAuth
    \/ Session
    \/ Challenge
    \/ Denied
    \/ Login

\* the short horizon: every kind of request, sessions created at any time
Spec == Init /\ [][Next]_vars

NextLong ==
    \/ Tick(LongTicks)
    \/ SkipAuth
    \/ Session
    \/ Challenge
    \/ Denied
    \/ LoginAtStart

\* the long horizon: sessions created at its start, followed past
\* MAX_SESSION_DURATION
SpecLong == Init /\ [][NextLong]_vars

----------------------------------------------------------------------------
(* The validity test at the millisecond, around both boundaries: one       *)
(* session created at time 0 and last touched at lastActivity, looked at   *)
(* at time now.                                                            *)

Near(t) == (t - Slack)..(t + Slack)

BoundaryTimes == Near(INACTIVITY_TIMEOUT) \cup Near(MAX_SESSION_DURATION)

ActivityTimes ==
    {0, MAX_SESSION_DURATION}
        \cup Near(MAX_SESSION_DURATION - INACTIVITY_TIMEOUT)

FirstSession == generateSessionId("r1", 0)

InitValid ==
    /\ now \in BoundaryTimes
    /\ \E touchedAt \in ActivityTimes :
          /\ touchedAt <= now
          /\ sessionStore =
                Put(EmptyStore, FirstSession,
                    [NewSessionData(DefaultUsername, 0, FirstSession)
                        EXCEPT !.lastActivity = touchedAt])
    /\ env = NoEnv
    /\ resp = [NoRequest EXCEPT !.at = now]
    /\ MonitorAbsent

NextValid ==
    \/ SkipAuth
    \/ Session
    \/ Challenge

SpecValid == InitValid /\ [][NextValid]_vars

----------------------------------------------------------------------------
(* The credential check on configured and presented strings.               *)

\* 'a', ':' and a byte with the high bit set (0xE1)
AuthChars == {97, COLON, 225}

Strings(n) == UNION {[1..k -> AuthChars] : k \in 0..n}

\* decoded payloads: strings without a separator and user ':' password
Payloads ==
    Strings(MaxLen)
        \cup {Credentials(u, p) : u \in Strings(1), p \in Strings(MaxLen)}

AuthHeaders == {Basic(bytes) : bytes \in Payloads}

InitAuth ==
    /\ now = 0
    /\ sessionStore = EmptyStore
    /\ env \in [AUTH_USERNAME : Strings(1), AUTH_PASSWORD : Strings(MaxLen)]
    /\ resp = NoRequest
    /\ MonitorAbsent

DeniedAuth ==
    /\ \E header \in AuthHeaders : DeniedRequest("/", NoCookie, header)
    /\ UNCHANGED monitorVars

LoginAuth ==
    /\ \E header \in AuthHeaders, r \in RandomStrings :
           LoginRequest("/", NoCookie, header, r)
    /\ UNCHANGED monitorVars

NextAuth ==
    \/ DeniedAuth
    \/ LoginAuth

SpecAuth == InitAuth /\ [][NextAuth]_vars

----------------------------------------------------------------------------
(* The sweep on stores of several sessions: the sessions created at time 0 *)
(* under each random string, each last touched at one of the activity      *)
(* times, looked at around the inactivity boundary.                        *)

SweepTimes == Near(INACTIVITY_TIMEOUT) \cup Near(2 * INACTIVITY_TIMEOUT)

SweepActivity == {0, INACTIVITY_TIMEOUT}

SweepSessions == {generateSessionId(r, 0) : r \in RandomStrings}

InitSweep ==
    /\ now \in SweepTimes
    /\ \E ids \in SUBSET SweepSessions :
          \E touched \in [ids -> {a \in SweepActivity : a <= now}] :
              sessionStore =
                  [id \in ids |->
                      [NewSessionData(DefaultUsername, 0, id)
                          EXCEPT !.lastActivity = touched[id]]]
    /\ env = NoEnv
    /\ resp = [NoRequest EXCEPT !.at = now]
    /\ MonitorAbsent

NextSweep ==
    \/ SkipAuth
    \/ Session
    \/ Challenge

SpecSweep == InitSweep /\ [][NextSweep]_vars

----------------------------------------------------------------------------
(* A client that keeps the cookie of a session past its end: the session   *)
(* of the start is followed past both bounds, and its token is presented   *)
(* again after the record is gone.                                         *)

\* the state after the first successful authentication, at time 0
InitReturn ==
    /\ now = 0
    /\ sessionStore =
          Put(EmptyStore, FirstSession,
              NewSessionData(DefaultUsername, 0, FirstSession))
    /\ env = NoEnv
    /\ resp = NoRequest
    /\ MonitorAbsent

\* the client presents the token of the first session on every request,
\* with or without credentials
SkipAuthReturn ==
    /\ \E path \in SessionRoutes :
           SkipAuthRequest(path, FirstSession, NoHeader)
    /\ UNCHANGED monitorVars

SessionReturn ==
    /\ \E header \in Headers : SessionRequest("/", FirstSession, header)
    /\ UNCHANGED monitorVars

ChallengeReturn ==
    /\ \E header \in Headers : ChallengeRequest("/", FirstSession, header)
    /\ UNCHANGED monitorVars

DeniedReturn ==
    /\ \E header \in Headers : DeniedRequest("/", FirstSession, header)
    /\ UNCHANGED monitorVars

LoginReturn ==
    /\ \E header \in Headers, r \in OneRandom :
           LoginRequest("/", FirstSession, header, r)
    /\ UNCHANGED monitorVars

NextReturn ==
    \/ Tick(LongTicks)
    \/ SkipAuthReturn
    \/ SessionReturn
    \/ ChallengeReturn
    \/ DeniedReturn
    \/ LoginReturn

SpecReturn == InitReturn /\ [][NextReturn]_vars

----------------------------------------------------------------------------
(* The Monitor on its own: mounted at time 0, with every answer a fetch    *)
(* can give.                                                               *)

\* the state after the mount: useState defaults, and the activity effect
\* has set lastActivity, the check interval, and sent the initial check
InitMonitor ==
    /\ now = 0
    /\ sessionStore = EmptyStore
    /\ env = NoEnv
    /\ resp = NoRequest
    /\ showWarning = FALSE
    /\ timeRemaining = Null
    /\ isSessionExpired = FALSE
    /\ lastActivity = 0
    /\ checkTimer = CHECK_INTERVAL
    /\ countdownTimer = NoTimer
    /\ reloadTimers = <<>>
    /\ reloaded = FALSE
    /\ storageCleared = FALSE
    /\ inflight = {Request("check", INACTIVITY_TIMEOUT - (now - lastActivity))}
    /\ event = FirstEvent("check", INACTIVITY_TIMEOUT)

CheckReply ==
    \E request \in inflight, reply \in Replies :
        checkSessionReply(request, reply)

ExtendReply ==
    \E request \in inflight, reply \in Replies :
        extendSessionReply(request, reply)

\* an activity signal, once the quiet start is over
Activity ==
    /\ now >= QuietMinutes * 60 * 1000
    /\ updateActivity

NextMonitor ==
    \/ Advance
    \/ Activity
    \/ checkSession
    \/ CheckReply
    \/ extendSession
    \/ ExtendReply
    \/ LogoutNow
    \/ countdownTick
    \/ Reload

SpecMonitor == InitMonitor /\ [][NextMonitor]_vars

\* the Monitor with an unmount of the component at any time
NextUnmount ==
    \/ NextMonitor
    \/ Unmount

SpecUnmount == InitMonitor /\ [][NextUnmount]_vars

\* the browser runs a timer that is due, time does not stop, and every
\* fetch settles: it resolves with a response or rejects
SpecMonitorLive ==
    /\ SpecMonitor
    /\ WF_vars(Advance)
    /\ WF_vars(checkSession)
    /\ WF_vars(countdownTick)
    /\ WF_vars(Reload)
    /\ WF_vars(CheckReply)
    /\ WF_vars(ExtendReply)

----------------------------------------------------------------------------
(* The portal as a whole: the page was opened by a successful              *)
(* authentication at time 0, the Monitor runs in it, and its fetches are   *)
(* answered by the middleware and the session routes.  The browser sends   *)
(* the cookie of its session and makes no other request.                   *)

InitSystem ==
    /\ now = 0
    /\ sessionStore =
          Put(EmptyStore, FirstSession,
              NewSessionData(DefaultUsername, 0, FirstSession))
    /\ env = NoEnv
    /\ resp = NoRequest
    /\ showWarning = FALSE
    /\ timeRemaining = Null
    /\ isSessionExpired = FALSE
    /\ lastActivity = 0
    /\ checkTimer = CHECK_INTERVAL
    /\ countdownTimer = NoTimer
    /\ reloadTimers = <<>>
    /\ reloaded = FALSE
    /\ storageCleared = FALSE
    /\ inflight = {Request("check", INACTIVITY_TIMEOUT - (now - lastActivity))}
    /\ event = FirstEvent("check", INACTIVITY_TIMEOUT)

\* fetch('/api/session-check') is handled by the middleware and the route,
\* and checkSession resumes with the answer
SystemCheckReply ==
    \E request \in inflight :
        /\ SkipAuthRequest("/api/session-check", FirstSession, NoHeader)
        /\ checkSessionResumes(request,
                               Response(RouteStatus("/api/session-check")))

\* fetch('/api/extend-session'), likewise
SystemExtendReply ==
    \E request \in inflight :
        /\ SkipAuthRequest("/api/extend-session", FirstSession, NoHeader)
        /\ extendSessionResumes(request,
                                Response(RouteStatus("/api/extend-session")))

NextSystem ==
    \/ Advance
    \/ Activity
    \/ checkSession
    \/ SystemCheckReply
    \/ extendSession
    \/ SystemExtendReply
    \/ LogoutNow
    \/ countdownTick
    \/ Reload

SpecSystem == InitSystem /\ [][NextSystem]_vars

----------------------------------------------------------------------------
(* Claims.  A step that leaves the clock alone is the handling of one      *)
(* request: resp' is that request and its answer, the unprimed store is    *)
(* the store it arrived at.                                                *)

\* the validity predicate of the data model: both bounds inclusive
WithinBothBounds(sessionData, t) ==
    /\ t - sessionData.loginTime <= MAX_SESSION_DURATION
    /\ t - sessionData.lastActivity <= INACTIVITY_TIMEOUT

\* C1: whenever the middleware evaluates a record at time t, it treats the
\* record as valid (keeps it in the sweep, and accepts a page request that
\* presents its token) if and only if t - loginTime <= MAX_SESSION_DURATION
\* and t - lastActivity <= INACTIVITY_TIMEOUT.
C1_ValidIffWithinBothBounds ==
    [][now' = now =>
        \A id \in DOMAIN sessionStore :
            /\ id \in DOMAIN sessionStore'
                    <=> WithinBothBounds(sessionStore[id], now)
            /\ (resp'.cookie = id /\ ~SkipsAuth(resp'.path))
                    => (resp'.via = "session"
                            <=> WithinBothBounds(sessionStore[id], now))]_vars

\* a page request accepted exactly MAX_SESSION_DURATION after the login
C1_Witness ==
    /\ resp.via = "session"
    /\ resp.cookie \in DOMAIN sessionStore
    /\ resp.at - sessionStore[resp.cookie].loginTime = MAX_SESSION_DURATION

\* C2: a request presenting the token of a session left untouched for more
\* than INACTIVITY_TIMEOUT is not accepted as that session, and afterwards
\* the store holds no record under the token.
C2_InactiveSessionRejectedAndEvicted ==
    [][now' = now =>
        \A id \in DOMAIN sessionStore :
            (resp'.cookie = id
                /\ now - sessionStore[id].lastActivity > INACTIVITY_TIMEOUT)
            => (resp'.via # "session" /\ id \notin DOMAIN sessionStore')]_vars

\* a page request with the token of an inactive session was answered 401
C2_Witness ==
    /\ resp.found = "inactive"
    /\ resp.path = "/"
    /\ resp.status = 401
    /\ resp.cookie \notin DOMAIN sessionStore

CallPeriod == 600 * 1000

\* the request arrives CallPeriod after the last touch of a session
\* created at time 0
KeptAlive(id) ==
    /\ sessionStore[id].loginTime = 0
    /\ sessionStore[id].lastActivity = now - CallPeriod

\* C4 as stated: the call made exactly at t = MAX_SESSION_DURATION to a
\* session created at 0 and kept alive every 600 s reports it invalid.
C4_InvalidExactlyAtMaxDuration ==
    [][now' = now =>
        \A id \in DOMAIN sessionStore :
            (resp'.cookie = id /\ KeptAlive(id) /\ ~SkipsAuth(resp'.path)
                /\ now = MAX_SESSION_DURATION)
            => resp'.status = 401]_vars

\* C4 as amended: the page request made exactly at t = MAX_SESSION_DURATION
\* is still accepted (the bound is inclusive); the page request made one
\* period later is not accepted and the record is removed.
C4_ValidAtMaxDurationInvalidAfter ==
    [][now' = now =>
        \A id \in DOMAIN sessionStore :
            (resp'.cookie = id /\ KeptAlive(id) /\ ~SkipsAuth(resp'.path))
            => /\ now = MAX_SESSION_DURATION
                    => (resp'.via = "session" /\ resp'.status = 200
                        /\ id \in DOMAIN sessionStore')
               /\ now = MAX_SESSION_DURATION + CallPeriod
                    => (resp'.via # "session"
                        /\ id \notin DOMAIN sessionStore')]_vars

\* the page request at exactly MAX_SESSION_DURATION was accepted
C4_Witness ==
    /\ resp.via = "session"
    /\ resp.at = MAX_SESSION_DURATION
    /\ resp.cookie \in DOMAIN sessionStore
    /\ sessionStore[resp.cookie].loginTime = 0

\* the request presents the token of a record that is valid on arrival
PresentsValidSession(request) ==
    /\ request.cookie \in DOMAIN sessionStore
    /\ WithinBothBounds(sessionStore[request.cookie], now)

\* the calls that are meant to touch a session: a page request (validate)
\* and a POST to the extension endpoint (extend)
TouchingPaths == {"/", "/api/extend-session"}

\* C5: if the previous touching call that presented a session's token came
\* less than INACTIVITY_TIMEOUT after the session was last touched and found
\* it valid, and the next touching call comes less than INACTIVITY_TIMEOUT
\* after that one and no later than loginTime + MAX_SESSION_DURATION, the
\* session is valid at that call too: the record is kept and a page
\* request accepted.
C5_TouchedWithinTimeoutStaysValid ==
    [][now' = now =>
        \A id \in DOMAIN sessionStore :
            (/\ resp.cookie = id
             /\ resp.path \in TouchingPaths
             /\ resp.status = 200
             /\ WithinBothBounds(sessionStore[id], resp.at)
             /\ resp.at - sessionStore[id].lastActivity < INACTIVITY_TIMEOUT
             /\ resp'.cookie = id
             /\ resp'.path \in TouchingPaths
             /\ now - resp.at < INACTIVITY_TIMEOUT
             /\ now - sessionStore[id].loginTime <= MAX_SESSION_DURATION)
            => /\ id \in DOMAIN sessionStore'
               /\ resp'.path = "/" => resp'.via = "session"]_vars

\* C6: a POST to the extension endpoint with the token of a valid session
\* sets that session's lastActivity to the time of the call.
C6_ExtendSetsLastActivity ==
    [][(/\ now' = now
        /\ resp'.path = "/api/extend-session"
        /\ PresentsValidSession(resp'))
       => /\ resp'.cookie \in DOMAIN sessionStore'
          /\ sessionStore'[resp'.cookie].lastActivity = now]_vars

\* C7: the liveness and the extension endpoint answer 401 to a caller with
\* no token, an unknown token or the token of an expired session, and
\* answer success only to a caller whose session is valid.
C7_SessionRoutesRequireValidSession ==
    resp.path \in SessionRoutes =>
        /\ resp.found # "valid" => resp.status = 401
        /\ resp.status = 200 => resp.found = "valid"

\* the part of a string before its first colon (the whole string if none)
RECURSIVE UpToColon(_)
UpToColon(s) ==
    IF s = <<>> \/ Head(s) = COLON THEN <<>>
    ELSE <<Head(s)>> \o UpToColon(Tail(s))

\* the part of a string after its first colon (Undefined if none)
RECURSIVE AfterColon(_)
AfterColon(s) ==
    IF s = <<>> THEN Undefined
    ELSE IF Head(s) = COLON THEN Tail(s)
    ELSE AfterColon(Tail(s))

C9_AcceptedIffExactCredentials ==
    resp.via \in {"denied", "login"} =>
        (resp.via = "login"
            <=> /\ UpToColon(resp.header.payload) = validUsername
                /\ AfterColon(resp.header.payload) = validPassword)

\* C10: a page request with no valid session and with no Authorization
\* header, or one that is not Basic, is answered 401 with a
\* WWW-Authenticate challenge; it creates no record and changes no valid
\* record.
C10_NoBasicHeaderChallenged ==
    [][(/\ now' = now
        /\ ~SkipsAuth(resp'.path)
        /\ ~PresentsValidSession(resp')
        /\ resp'.header.scheme # "Basic")
       => /\ resp'.status = 401
          /\ resp'.challenge
          /\ DOMAIN sessionStore' \subseteq DOMAIN sessionStore
          /\ \A id \in DOMAIN sessionStore :
                WithinBothBounds(sessionStore[id], now)
                => /\ id \in DOMAIN sessionStore'
                   /\ sessionStore'[id] = sessionStore[id]]_vars

\* a request with a Bearer header was challenged while a valid session of
\* another client stayed in the store
C10_Witness ==
    /\ resp.via = "challenge"
    /\ resp.status = 401
    /\ resp.header = Bearer
    /\ DOMAIN sessionStore # {}

C12_RejectionClearsCookie ==
    (resp.status = 401 /\ resp.cookie # NoCookie) => resp.clearCookie

\* C13: a request is let through (not answered 401) only if it presents the
\* token of a session valid on arrival or credentials that match the
\* configured pair.
C13_LetThroughOnlyAuthenticated ==
    (resp.via # "init" /\ resp.status # 401)
    => \/ resp.found = "valid"
       \/ /\ resp.header.scheme = "Basic"
          /\ CredentialsMatch(resp.header, validUsername, validPassword)

\* the answer the middleware gives to a request without a cookie
NoTokenVia(path, header) ==
    IF SkipsAuth(path) THEN "skip"
    ELSE IF LacksBasic(header) THEN "challenge"
    ELSE IF ~CredentialsMatch(header, validUsername, validPassword)
         THEN "denied"
    ELSE "login"

\* the store the middleware leaves after a request without a cookie that
\* was answered with setCookie
NoTokenStore(path, header, setCookie) ==
    LET swept == cleanupExpiredSessions(sessionStore, now)
    IN  IF NoTokenVia(path, header) = "login"
        THEN Put(swept, setCookie,
                 NewSessionData(HeaderUsername(header), now, setCookie))
        ELSE swept

\* C14: a request presenting a token that is not the key of any record is
\* never accepted as a session, leaves every record that stays in the store
\* as it was, and gets the branch, status, cookie and store that the same
\* request without a cookie gets; the cookie is cleared only on a 401.
C14_UnknownTokenLikeNoToken ==
    [][(/\ now' = now
        /\ resp'.cookie \notin DOMAIN sessionStore)
       => /\ resp'.via = NoTokenVia(resp'.path, resp'.header)
          /\ resp'.status =
                (IF resp'.via \in {"challenge", "denied"} THEN 401
                 ELSE RouteStatus(resp'.path))
          /\ sessionStore' =
                NoTokenStore(resp'.path, resp'.header, resp'.setCookie)
          /\ resp'.via # "login" => resp'.setCookie = NoCookie
          /\ resp'.clearCookie
                => (resp'.cookie # NoCookie /\ resp'.status = 401)
          /\ resp'.cookie = NoCookie => ~resp'.clearCookie
          /\ \A id \in DOMAIN sessionStore \cap DOMAIN sessionStore' :
                resp'.setCookie # id
                    => sessionStore'[id] = sessionStore[id]]_vars

\* a request with a forged token was handled while another client's valid
\* session was in the store
C14_Witness ==
    /\ resp.cookie = ForgedCookie
    /\ resp.path = "/"
    /\ resp.status = 401
    /\ resp.clearCookie
    /\ \E id \in DOMAIN sessionStore :
          WithinBothBounds(sessionStore[id], now)

\* C15: a second run of the sweep at the same time removes nothing: the
\* store after one run is the store after two, and a request that only
\* sweeps, handled right after another one at the same instant, leaves the
\* store as it found it.
C15_SweepIdempotent ==
    [][now' = now =>
        LET once == cleanupExpiredSessions(sessionStore, now)
        IN  /\ cleanupExpiredSessions(once, now) = once
            /\ (resp.via = "skip" /\ resp.at = now /\ resp'.via = "skip")
                  => sessionStore' = sessionStore]_vars

\* a request that only sweeps has removed an expired record and left a
\* valid one, and no time has passed since
C15_Witness ==
    /\ resp.via = "skip"
    /\ resp.at = now
    /\ resp.found \in {"inactive", "overdue", "both"}
    /\ resp.cookie \notin DOMAIN sessionStore
    /\ DOMAIN sessionStore # {}

----------------------------------------------------------------------------
(* Claims about the Monitor.  A step that leaves the clock alone is one    *)
(* handler of the Monitor; event' tells which, and with what outcome of    *)
(* its fetch.                                                              *)

\* the Monitor shows the warning modal
InWarning == showWarning /\ timeRemaining # Null

\* C16: as long as no activity signal has come since the mount (at time 0),
\* the warning is not shown before INACTIVITY_TIMEOUT - WARNING_TIME has
\* elapsed, and the check made at that mark, answered valid, shows it with
\* a countdown of WARNING_TIME (300 seconds).
C16_WarningAtWarningMark ==
    [][/\ (lastActivity' = 0 /\ now' < INACTIVITY_TIMEOUT - WARNING_TIME)
            => ~showWarning'
       /\ (/\ now' = now
           /\ lastActivity = 0
           /\ now = INACTIVITY_TIMEOUT - WARNING_TIME
           /\ event'.kind = "checkReply"
           /\ event'.outcome = "ok"
           /\ event'.timeUntilExpiry = WARNING_TIME)
          => /\ showWarning'
             /\ timeRemaining' = WARNING_TIME \div 1000]_vars

\* the warning shown at the 25-minute mark with 300 seconds to go
C16_Witness ==
    /\ lastActivity = 0
    /\ now = INACTIVITY_TIMEOUT - WARNING_TIME
    /\ event.kind = "checkReply"
    /\ InWarning
    /\ timeRemaining = 300
    /\ ~isSessionExpired

C18_InvalidCheckPreemptsCountdown ==
    [][(/\ now' = now
        /\ InWarning
        /\ event'.kind = "checkReply"
        /\ event'.outcome = "failed")
       => /\ isSessionExpired'
          /\ ~showWarning'
          /\ countdownTimer' = NoTimer
          /\ Len(reloadTimers') = Len(reloadTimers) + 1]_vars

\* an invalid answer expired the Monitor while the countdown had more than
\* a minute to go
C18_Witness ==
    /\ event.kind = "checkReply"
    /\ event.outcome = "failed"
    /\ isSessionExpired
    /\ ~showWarning
    /\ timeRemaining > 60

\* C19 as stated: the warning is hidden without the Monitor being expired
\* only by a successful extendSession.
C19_OnlyExtendHidesWarning ==
    [][(InWarning /\ ~showWarning' /\ ~isSessionExpired')
       => (event'.kind = "extendReply" /\ event'.outcome = "ok")]_vars

\* C19: the warning is hidden without the Monitor being expired only by a
\* successful extendSession or by an activity signal; a periodic check, a
\* countdown tick or a failed extension never hides it without expiring.
C19_OnlyExtendOrActivityHidesWarning ==
    [][(InWarning /\ ~showWarning' /\ ~isSessionExpired')
       => \/ event'.kind = "extendReply" /\ event'.outcome = "ok"
          \/ event'.kind = "activity"]_vars

\* a successful extension has just hidden the warning
C19_Witness ==
    /\ event.kind = "extendReply"
    /\ event.outcome = "ok"
    /\ ~showWarning
    /\ timeRemaining = Null
    /\ ~isSessionExpired
    /\ now - lastActivity >= INACTIVITY_TIMEOUT - WARNING_TIME

\* C20: whenever the fetch of a liveness check or of an extension throws or
\* gives a status that is not a success, the Monitor is expired after that
\* step: expired notice shown, warning hidden, storage cleared, reload
\* scheduled.
C20_FailsClosed ==
    [][(/\ now' = now
        /\ event'.kind \in {"checkReply", "extendReply"}
        /\ event'.outcome = "failed")
       => /\ isSessionExpired'
          /\ ~showWarning'
          /\ storageCleared'
          /\ Len(reloadTimers') = Len(reloadTimers) + 1]_vars

\* a failed extension has expired the Monitor
C20_Witness ==
    /\ event.kind = "extendReply"
    /\ event.outcome = "failed"
    /\ isSessionExpired
    /\ ~showWarning
    /\ reloadTimers # <<>>

\* C21: once the Monitor is expired the storages have been cleared and a
\* reload is scheduled; the expired state is never left, the storages are
\* not refilled, no scheduled reload is cancelled, and the page is
\* eventually reloaded.
C21_ExpiredHasCleared ==
    isSessionExpired => storageCleared /\ reloadTimers # <<>>

C21_ExpiredIsKept ==
    [][isSessionExpired
         => /\ isSessionExpired'
            /\ storageCleared'
            /\ Len(reloadTimers') >= Len(reloadTimers)
            /\ SubSeq(reloadTimers', 1, Len(reloadTimers)) = reloadTimers]_vars

C21_ExpiredLeadsToReload == isSessionExpired ~> reloaded

C21_ExpiredThenReloaded ==
    /\ []C21_ExpiredHasCleared
    /\ C21_ExpiredIsKept
    /\ C21_ExpiredLeadsToReload

\* a successful extension answer arrives at a Monitor that has expired
C21_Witness ==
    /\ isSessionExpired
    /\ storageCleared
    /\ reloadTimers # <<>>
    /\ event.kind = "extendReply"
    /\ event.outcome = "ok"

\* C22: every record of the store has lastActivity >= loginTime, and while
\* a record stays in the store under its token a request never lowers its
\* lastActivity (the clock of the model never goes back).
C22_ActivityNotBeforeLogin ==
    \A id \in DOMAIN sessionStore :
        sessionStore[id].lastActivity >= sessionStore[id].loginTime

C22_ActivityNeverDecreases ==
    [][/\ now' >= now
       /\ \A id \in DOMAIN sessionStore \cap DOMAIN sessionStore' :
              sessionStore'[id].lastActivity >= sessionStore[id].lastActivity]_vars

C22_ActivityOrdered ==
    /\ []C22_ActivityNotBeforeLogin
    /\ C22_ActivityNeverDecreases

\* a request has touched a session created earlier, another one is stored
C22_Witness ==
    /\ resp.via = "session"
    /\ resp.cookie \in DOMAIN sessionStore
    /\ sessionStore[resp.cookie].lastActivity = resp.at
    /\ sessionStore[resp.cookie].lastActivity
           > sessionStore[resp.cookie].loginTime
    /\ Cardinality(DOMAIN sessionStore) > 1

\* a successful authentication is handled
IsLogin == resp'.via = "login" /\ resp' # resp

\* C23: the token a successful authentication issues is not the token of a
\* record in the store, so that creating the session overwrites no record,
\* and the loginTime stored under a token that stays is not changed.
C23_IssuedTokenIsFresh ==
    [][IsLogin
         => /\ resp'.setCookie \notin DOMAIN sessionStore
            /\ \A id \in DOMAIN sessionStore \cap DOMAIN sessionStore' :
                   sessionStore'[id].loginTime = sessionStore[id].loginTime]_vars

\* the tokens with a time part before now that no valid record is stored
\* under: once a record has been found invalid its token is one of them
EndedTokens ==
    {id \in {generateSessionId(r, k * TickMs) :
                r \in OneRandom, k \in 0..(now \div TickMs)} :
        /\ IssuedAt(id) < now
        /\ \/ id \notin DOMAIN sessionStore
           \/ ~WithinBothBounds(sessionStore[id], now)}

\* C24: a token whose record was found invalid, by inactivity or by the
\* maximum duration, is not accepted by any later request: the record is
\* not touched and not stored again, a request that presents the token is
\* not let through on it, and a successful authentication issues a token
\* of its own time, different from it.
C24_EndedTokenNeverAccepted ==
    [][\A id \in EndedTokens :
          /\ now' = now => id \notin DOMAIN sessionStore'
          /\ id \in DOMAIN sessionStore' => sessionStore'[id] = sessionStore[id]
          /\ ~(resp' # resp /\ resp'.via = "session" /\ resp'.cookie = id)
          /\ IsLogin => resp'.setCookie # id]_vars

\* the token of the first session, whose record is gone, has been presented
\* with the right credentials and another token was issued
C24_Witness ==
    /\ resp.via = "login"
    /\ resp.cookie = FirstSession
    /\ resp.found = "none"
    /\ resp.setCookie # FirstSession
    /\ FirstSession \notin DOMAIN sessionStore

\* C25: the warning prompt and the expired notice are never both active:
\* from the expiry to the reload showWarning is false.
C25_WarningOrExpiredNotBoth ==
    isSessionExpired /\ ~reloaded => ~showWarning

\* C26: the expiry actions run once per page: at most one reload is ever
\* scheduled.
C26_OneReloadScheduled == Len(reloadTimers) <= 1

\* C27: a successful extension cancels the countdown timer and restarts the
\* periodic check cycle: the next periodic check is due one CHECK_INTERVAL
\* after the extension.
C27_ExtendRestartsCheckCycle ==
    [][(/\ now' = now
        /\ ~isSessionExpired
        /\ event'.kind = "extendReply"
        /\ event'.outcome = "ok")
         => /\ countdownTimer' = NoTimer
            /\ checkTimer' = now + CHECK_INTERVAL]_vars

\* C30: a periodic check that is answered as valid shows the warning or
\* expires the page for inactivity only when the last activity signal is
\* at least INACTIVITY_TIMEOUT - WARNING_TIME old, an activity signal
\* received while the request was in flight included.
C30_CheckReflectsActivityInFlight ==
    [][(/\ now' = now
        /\ event'.kind = "checkReply"
        /\ event'.outcome = "ok"
        /\ \/ showWarning' /\ timeRemaining' # timeRemaining
           \/ isSessionExpired' /\ ~isSessionExpired)
         => now - lastActivity >= INACTIVITY_TIMEOUT - WARNING_TIME]_vars

\* C28: once the component is unmounted no timer of the Monitor is left
\* scheduled (periodic check, countdown, reload), and no reply that was
\* pending changes the state or runs the expiry actions.  That at most one
\* periodic-check timer and one countdown timer exist is how the timers
\* are kept here: one due time each.
C28_NoTimerAfterUnmount == ~Mounted /\ ~reloaded => TimersDue = {}

C28_NoExpiryAfterUnmount ==
    [][~Mounted
         => /\ storageCleared' = storageCleared
            /\ reloadTimers' = reloadTimers
            /\ reloaded' = reloaded
            /\ showWarning' = showWarning
            /\ isSessionExpired' = isSessionExpired]_vars

C28_UnmountStopsMonitor ==
    /\ []C28_NoTimerAfterUnmount
    /\ C28_NoExpiryAfterUnmount

\* C29: when the reply to a periodic check arrives and the middleware did
\* not find a valid record under the browser's token as it handled the
\* request, the Monitor moves to the expired state.
C29_InvalidSessionExpiresMonitor ==
    [][(/\ now' = now
        /\ event'.kind = "checkReply"
        /\ resp'.path = "/api/session-check"
        /\ resp'.at = now
        /\ resp'.found # "valid")
         => isSessionExpired']_vars

============================================================================
